---- MODULE Spec2Model ----
(***************************************************************************)
(* Model of the HTTP gateway of src/server.js (the same handlers appear in *)
(* src/.Dockerfile and src/unnamed/part_000): an in-memory folder registry *)
(* and pass-through handlers to an object store and a mail transport.      *)
(* The variant that src/unnamed/part_000 keeps in a comment block adds a   *)
(* job that the cron fires every minute, checkUpcomingEvents.              *)
(*                                                                         *)
(* Strings are sequences of one-character strings, so that trim() and      *)
(* startsWith() are computed character by character.  An absent parameter  *)
(* (undefined) and the empty string are both falsy in every test the code  *)
(* makes on them; both are the empty sequence here.                        *)
(***************************************************************************)
EXTENDS Integers, Sequences, FiniteSets, TLC

\* ---------------------------------------------------------------- bounds
MaxFolders == 3
MaxUploads == 2
MaxReqs == 2
MaxTicks == 6
MaxScans == 2

\* ------------------------------------------------------------- constants
maxFileCount == 100
validDurationInSeconds == 3600

\* --------------------------------------------------------------- strings
Empty == <<>>

U1 == <<"u", "1">>
U2 == <<"u", "2">>
Docs == <<"D", "o", "c", "s">>
Pics == <<"P", "i", "c", "s">>

Min(S) == CHOOSE x \in S : \A y \in S : x <= y
Max(S) == CHOOSE x \in S : \A y \in S : x >= y

\* !x on a string parameter: undefined and "" are falsy
Truthy(s) == s # Empty

\* String.prototype.trim: drop leading and trailing white space
Trim(s) ==
  LET keep == {i \in 1..Len(s) : s[i] # " "}
  IN  IF keep = {} THEN Empty ELSE SubSeq(s, Min(keep), Max(keep))

\* req.query.uid ? req.query.uid.trim() : ""
TrimmedParam(s) == IF Truthy(s) THEN Trim(s) ELSE Empty

\* String.prototype.startsWith
StartsWith(s, p) == Len(p) <= Len(s) /\ SubSeq(s, 1, Len(p)) = p

Range(f) == {f[i] : i \in DOMAIN f}

\* ------------------------------------------------------------------ state
VARIABLES
  folders,          \* const folders = []
  folderIdCounter,  \* let folderIdCounter = 1
  store,            \* the bucket: set of file versions [fileId, fileName]
  nextFileId,       \* the store's allocator of file ids
  lastUpload,       \* what the latest successful upload sent and was answered
  lastDelete,       \* the latest successful delete of no longer re-uploaded name
  rq,               \* the requests in progress, one record per slot
  now,              \* the wall clock, in ms, at the latest tick of the cron
  ticks,            \* how many times the cron has fired
  eventos,          \* the external collection "eventos", in snapshot order
  scans,            \* the runs of checkUpcomingEvents in progress
  sent,             \* per event, the sendMail calls issued so far
  missed            \* per event, the ticks inside its window whose fetch failed

vars == <<folders, folderIdCounter, store, nextFileId, lastUpload, lastDelete, rq,
          now, ticks, eventos, scans, sent, missed>>
registry == <<folders, folderIdCounter>>
bucket == <<store, nextFileId, lastUpload, lastDelete>>
poller == <<now, ticks, eventos, scans, sent, missed>>
server == <<registry, bucket, rq>>

Reqs == 1..MaxReqs

NoRes == [status |-> 0, success |-> FALSE, error |-> "", data |-> <<>>]

IdleReq ==
  [op |-> "none", pc |-> "idle",
   uid |-> Empty, name |-> Empty, carpeta |-> Empty,
   fileId |-> 0, fileName |-> Empty, hasFile |-> FALSE,
   to |-> Empty, subject |-> Empty, text |-> Empty, html |-> Empty,
   refPath |-> Empty, tmp |-> "none", calls |-> <<>>, thrown |-> "",
   res |-> NoRes]

NoUpload == [uid |-> Empty, fileId |-> 0, fileName |-> Empty]
NoDelete == [uid |-> Empty, fileName |-> Empty]

Scans == 1..MaxScans

\* one document of a snapshot, before its forEach callback has run
NoDoc == [pc |-> "wait", lookups |-> 0, sends |-> 0, to |-> ""]

NoScan == [pc |-> "idle", tick |-> 0, ahora |-> 0, docs |-> <<>>]

\* the server of src/server.js schedules no job
NoPoller ==
  /\ now = 0
  /\ ticks = 0
  /\ eventos = <<>>
  /\ scans = [s \in Scans |-> NoScan]
  /\ sent = <<>>
  /\ missed = <<>>

\* nothing stored, nothing in progress
ServerStart ==
  /\ folders = <<>>
  /\ folderIdCounter = 1
  /\ store = {}
  /\ nextFileId = 1
  /\ lastUpload = NoUpload
  /\ lastDelete = NoDelete
  /\ rq = [r \in Reqs |-> IdleReq]

Init == ServerStart /\ NoPoller

\* res.status(code).json({ success: false, error })
Fail(code, message) ==
  [status |-> code, success |-> FALSE, error |-> message, data |-> <<>>]

\* res.json({ success: true, ... })
Ok(data) == [status |-> 200, success |-> TRUE, error |-> "", data |-> data]

\* the request leaves the server once it has been answered
Clear(r) ==
  /\ rq[r].pc = "done"
  /\ rq' = [rq EXCEPT ![r] = IdleReq]
  /\ UNCHANGED <<registry, bucket, poller>>

\* ------------------------------------------------------- folder registry
NextFolderIdStuck(counter) == counter

\* folderIdCounter++
NextFolderId(counter) == counter + 1

MissingFolderFieldNameOnly(name, uid) == ~Truthy(name)

\* if (!name || !uid)
MissingFolderField(name, uid) == ~Truthy(name) \/ ~Truthy(uid)

UserFoldersAll(uid) == folders

\* folders.filter(folder => folder.uid === uid)
UserFolders(uid) == SelectSeq(folders, LAMBDA folder : folder.uid = uid)

\* app.post('/folder')
PostFolder(r, name, uid) ==
  /\ rq[r].pc = "idle"
  /\ LET req == [IdleReq EXCEPT !.op = "POST /folder", !.pc = "done",
                                !.name = name, !.uid = uid]
     IN  IF MissingFolderField(name, uid)
         THEN /\ rq' = [rq EXCEPT ![r] = [req EXCEPT !.res =
                          Fail(400, "Falta el nombre de la carpeta o el UID")]]
              /\ UNCHANGED registry
         ELSE LET newFolder == [id |-> folderIdCounter, name |-> name, uid |-> uid]
              IN  /\ Len(folders) < MaxFolders
                  /\ folderIdCounter' = NextFolderId(folderIdCounter)
                  /\ folders' = Append(folders, newFolder)
                  /\ rq' = [rq EXCEPT ![r] = [req EXCEPT !.res = Ok(newFolder)]]
  /\ UNCHANGED <<bucket, poller>>

\* app.get('/folders')
GetFolders(r, quid) ==
  /\ rq[r].pc = "idle"
  /\ LET req == [IdleReq EXCEPT !.op = "GET /folders", !.pc = "done", !.uid = quid]
         uid == TrimmedParam(quid)
     IN  IF ~Truthy(uid)
         THEN rq' = [rq EXCEPT ![r] = [req EXCEPT !.res =
                       Fail(400, "Falta el UID en la query")]]
         ELSE rq' = [rq EXCEPT ![r] = [req EXCEPT !.res = Ok(UserFolders(uid))]]
  /\ UNCHANGED <<registry, bucket, poller>>

\* inputs of the folder endpoints
FolderNames == {Empty, Docs, Pics}
FolderUids == {Empty, U1, U2, <<" ">> \o U1, <<" ">>}

NextFolders ==
  \/ \E name \in FolderNames, uid \in FolderUids : PostFolder(1, name, uid)
  \/ \E uid \in FolderUids : GetFolders(1, uid)
  \/ Clear(1)

\* one client using the folder endpoints, one request at a time
SpecFolders == Init /\ [][NextFolders]_vars

\* ---------------------------------------------------------- object store
Slash == <<"/">>
Archivos == <<"a", "r", "c", "h", "i", "v", "o", "s", "/">>
D == <<"d">>
FileF == <<"f">>

OwnerPrefixNoSlash(uid) == Archivos \o uid

\* `archivos/${uid}/`
OwnerPrefix(uid) == Archivos \o uid \o Slash

RefPathNoFolder(uid, carpeta, originalFileName) ==
  Archivos \o uid \o Slash \o originalFileName

\* let refPath = "archivos/"; refPath += `${uid}/`;
\* if (carpeta) refPath += `${carpeta}/`; refPath += originalFileName
RefPath(uid, carpeta, originalFileName) ==
  Archivos \o uid \o Slash
    \o (IF Truthy(carpeta) THEN carpeta \o Slash ELSE Empty)
    \o originalFileName

ListPrefixEveryone(uid) == Archivos

\* let prefix = "archivos/"; if (uid) prefix += `${uid}/`
ListPrefix(uid) == IF Truthy(uid) THEN Archivos \o uid \o Slash ELSE Archivos

\* b2.listFileNames({bucketId, prefix, maxFileCount}): the newest version of
\* each file name under the prefix, at most maxCount of them
ListFileNames(prefix, maxCount) ==
  LET newest == {v \in store :
                   /\ StartsWith(v.fileName, prefix)
                   /\ \A w \in store : w.fileName = v.fileName => w.fileId <= v.fileId}
  IN  IF Cardinality(newest) <= maxCount THEN newest
      ELSE CHOOSE T \in SUBSET newest : Cardinality(T) = maxCount

CatchRetry(req, message) == [req EXCEPT !.thrown = message]

CatchUnlinks(req, message) ==
  [req EXCEPT !.thrown = message, !.pc = "done", !.res = Fail(500, message),
              !.tmp = IF @ = "ondisk" THEN "deleted" ELSE @]

\* catch (error) { res.status(500).json({ success: false, error: error.message }) }
Catch(req, message) ==
  [req EXCEPT !.thrown = message, !.pc = "done", !.res = Fail(500, message)]

\* an awaited external call: it is issued once; the handler goes on at
\* `next` when it resolves and into its catch block when it rejects with e
Await(r, call, e, next) ==
  LET req == [rq[r] EXCEPT !.calls = Append(@, call)]
  IN  rq' = [rq EXCEPT ![r] =
               IF e = "" THEN [req EXCEPT !.pc = next] ELSE Catch(req, e)]

\* ------------------------------------------------------------ POST /upload
\* multer has stored the part "archivo" (if any) in uploads/; the handler
\* runs up to its first await
StartUpload(r, uid, carpeta, originalFileName, hasFile) ==
  /\ rq[r].pc = "idle"
  /\ LET req == [IdleReq EXCEPT !.op = "POST /upload", !.uid = uid,
                                !.carpeta = carpeta, !.name = originalFileName,
                                !.hasFile = hasFile,
                                !.tmp = IF hasFile THEN "ondisk" ELSE "none"]
     IN  IF ~Truthy(TrimmedParam(uid))
         THEN rq' = [rq EXCEPT ![r] = [req EXCEPT !.pc = "done",
                                         !.res = Fail(400, "UID requerido")]]
         ELSE rq' = [rq EXCEPT ![r] = [req EXCEPT !.pc = "authorize"]]
  /\ UNCHANGED <<registry, bucket, poller>>

\* await b2.authorize()
UploadAuthorize(r, e) ==
  /\ rq[r].op = "POST /upload" /\ rq[r].pc = "authorize"
  /\ Await(r, "authorize", e, "getUploadUrl")
  /\ UNCHANGED <<registry, bucket, poller>>

\* await b2.getUploadUrl({ bucketId })
UploadGetUploadUrl(r, e) ==
  /\ rq[r].op = "POST /upload" /\ rq[r].pc = "getUploadUrl"
  /\ Await(r, "getUploadUrl", e, "readFile")
  /\ UNCHANGED <<registry, bucket, poller>>

\* req.file.path; fs.readFileSync(filePath); refPath is composed
UploadReadFile(r, e) ==
  /\ rq[r].op = "POST /upload" /\ rq[r].pc = "readFile"
  /\ IF ~rq[r].hasFile
     THEN /\ e = ""
          /\ rq' = [rq EXCEPT ![r] = Catch(rq[r], "TypeError: req.file is undefined")]
     ELSE LET req == [rq[r] EXCEPT !.calls = Append(@, "readFileSync")]
          IN  rq' = [rq EXCEPT ![r] =
                       IF e # "" THEN Catch(req, e)
                       ELSE [req EXCEPT !.pc = "uploadFile",
                               !.refPath = RefPath(TrimmedParam(req.uid),
                                                   TrimmedParam(req.carpeta),
                                                   req.name)]]
  /\ UNCHANGED <<registry, bucket, poller>>

\* await b2.uploadFile({ uploadUrl, uploadAuthToken, fileName: refPath, data })
UploadFile(r, e) ==
  /\ rq[r].op = "POST /upload" /\ rq[r].pc = "uploadFile"
  /\ LET req == [rq[r] EXCEPT !.calls = Append(@, "uploadFile")]
     IN  IF e # ""
         THEN /\ rq' = [rq EXCEPT ![r] = Catch(req, e)]
              /\ UNCHANGED bucket
         ELSE /\ nextFileId <= MaxUploads
              /\ store' = store \cup {[fileId |-> nextFileId, fileName |-> req.refPath]}
              /\ nextFileId' = nextFileId + 1
              /\ rq' = [rq EXCEPT ![r] = [req EXCEPT !.pc = "unlink",
                                            !.fileId = nextFileId]]
              /\ lastDelete' = NoDelete
              /\ UNCHANGED lastUpload
  /\ UNCHANGED <<registry, poller>>

UploadUnlinkRegisters(r, e) ==
  /\ rq[r].op = "POST /upload" /\ rq[r].pc = "unlink"
  /\ LET req == [rq[r] EXCEPT !.calls = Append(@, "unlinkSync")]
         data == [fileId |-> req.fileId, fileName |-> req.refPath]
     IN  IF e # ""
         THEN /\ rq' = [rq EXCEPT ![r] = Catch(req, e)]
              /\ UNCHANGED <<lastUpload, registry>>
         ELSE /\ rq' = [rq EXCEPT ![r] = [req EXCEPT !.pc = "done",
                                            !.tmp = "deleted", !.res = Ok(data)]]
              /\ lastUpload' = [uid |-> req.uid, fileId |-> data.fileId,
                                fileName |-> data.fileName]
              /\ folders' = Append(folders, [id |-> folderIdCounter,
                                             name |-> req.carpeta, uid |-> req.uid])
              /\ folderIdCounter' = folderIdCounter + 1
  /\ UNCHANGED <<store, nextFileId, lastDelete, poller>>

\* fs.unlinkSync(filePath); res.json({ success: true, data: { fileId, fileName } })
UploadUnlink(r, e) ==
  /\ rq[r].op = "POST /upload" /\ rq[r].pc = "unlink"
  /\ LET req == [rq[r] EXCEPT !.calls = Append(@, "unlinkSync")]
         data == [fileId |-> req.fileId, fileName |-> req.refPath]
     IN  IF e # ""
         THEN /\ rq' = [rq EXCEPT ![r] = Catch(req, e)]
              /\ UNCHANGED lastUpload
         ELSE /\ rq' = [rq EXCEPT ![r] = [req EXCEPT !.pc = "done",
                                            !.tmp = "deleted", !.res = Ok(data)]]
              /\ lastUpload' = [uid |-> req.uid, fileId |-> data.fileId,
                                fileName |-> data.fileName]
  /\ UNCHANGED <<registry, store, nextFileId, lastDelete, poller>>

\* --------------------------------------------------------------- GET /files
StartFiles(r, uid) ==
  /\ rq[r].pc = "idle"
  /\ rq' = [rq EXCEPT ![r] = [IdleReq EXCEPT !.op = "GET /files", !.uid = uid,
                                             !.pc = "authorize"]]
  /\ UNCHANGED <<registry, bucket, poller>>

\* await b2.authorize()
FilesAuthorize(r, e) ==
  /\ rq[r].op = "GET /files" /\ rq[r].pc = "authorize"
  /\ Await(r, "authorize", e, "listFileNames")
  /\ UNCHANGED <<registry, bucket, poller>>

\* await b2.listFileNames({ bucketId, prefix, maxFileCount: 100 })
FilesList(r, e) ==
  /\ rq[r].op = "GET /files" /\ rq[r].pc = "listFileNames"
  /\ LET req == [rq[r] EXCEPT !.calls = Append(@, "listFileNames")]
         prefix == ListPrefix(TrimmedParam(req.uid))
     IN  rq' = [rq EXCEPT ![r] =
                  IF e # "" THEN Catch(req, e)
                  ELSE [req EXCEPT !.pc = "done",
                          !.res = Ok(ListFileNames(prefix, maxFileCount))]]
  /\ UNCHANGED <<registry, bucket, poller>>

\* ------------------------------------------------------------- DELETE /file
StartDeleteNoOwnerTest(r, fileId, fileName, uid) ==
  /\ rq[r].pc = "idle"
  /\ LET req == [IdleReq EXCEPT !.op = "DELETE /file", !.fileId = fileId,
                                !.fileName = fileName, !.uid = uid]
     IN  rq' = [rq EXCEPT ![r] =
           IF fileId = 0 \/ ~Truthy(fileName) \/ ~Truthy(uid)
           THEN [req EXCEPT !.pc = "done",
                   !.res = Fail(400, "Se requiere fileId, fileName y uid")]
           ELSE [req EXCEPT !.pc = "authorize"]]
  /\ UNCHANGED <<registry, bucket, poller>>

StartDelete(r, fileId, fileName, uid) ==
  /\ rq[r].pc = "idle"
  /\ LET req == [IdleReq EXCEPT !.op = "DELETE /file", !.fileId = fileId,
                                !.fileName = fileName, !.uid = uid]
     IN  rq' = [rq EXCEPT ![r] =
           IF fileId = 0 \/ ~Truthy(fileName) \/ ~Truthy(uid)
           THEN [req EXCEPT !.pc = "done",
                   !.res = Fail(400, "Se requiere fileId, fileName y uid")]
           ELSE IF ~StartsWith(fileName, OwnerPrefix(uid))
           THEN [req EXCEPT !.pc = "done",
                   !.res = Fail(403, "No autorizado para eliminar este archivo")]
           ELSE [req EXCEPT !.pc = "authorize"]]
  /\ UNCHANGED <<registry, bucket, poller>>

DeleteAuthorizeShared(r, e) ==
  /\ rq[r].op = "DELETE /file" /\ rq[r].pc = "authorize"
  /\ IF \E q \in Reqs \ {r} : "authorize" \in Range(rq[q].calls)
     THEN e = "" /\ rq' = [rq EXCEPT ![r].pc = "deleteFileVersion"]
     ELSE Await(r, "authorize", e, "deleteFileVersion")
  /\ UNCHANGED <<registry, bucket, poller>>

\* await b2.authorize()
DeleteAuthorize(r, e) ==
  /\ rq[r].op = "DELETE /file" /\ rq[r].pc = "authorize"
  /\ Await(r, "authorize", e, "deleteFileVersion")
  /\ UNCHANGED <<registry, bucket, poller>>

\* await b2.deleteFileVersion({ fileId, fileName }); the store rejects the
\* call when it holds no such version
DeleteFileVersion(r, e) ==
  /\ rq[r].op = "DELETE /file" /\ rq[r].pc = "deleteFileVersion"
  /\ LET req == [rq[r] EXCEPT !.calls = Append(@, "deleteFileVersion")]
         version == [fileId |-> req.fileId, fileName |-> req.fileName]
     IN  IF e # ""
         THEN /\ rq' = [rq EXCEPT ![r] = Catch(req, e)]
              /\ UNCHANGED <<store, lastDelete>>
         ELSE IF version \notin store
         THEN /\ rq' = [rq EXCEPT ![r] = Catch(req, "file_not_present")]
              /\ UNCHANGED <<store, lastDelete>>
         ELSE /\ store' = store \ {version}
              /\ rq' = [rq EXCEPT ![r] = [req EXCEPT !.pc = "done",
                                            !.res = Ok(version)]]
              /\ lastDelete' =
                   IF lastUpload = [uid |-> req.uid, fileId |-> req.fileId,
                                    fileName |-> req.fileName]
                   THEN [uid |-> req.uid, fileName |-> req.fileName]
                   ELSE lastDelete
  /\ UNCHANGED <<registry, nextFileId, lastUpload, poller>>

\* ------------------------------------------------------------ GET /download
StartDownload(r, fileName, quid) ==
  /\ rq[r].pc = "idle"
  /\ LET req == [IdleReq EXCEPT !.op = "GET /download", !.fileName = fileName,
                                !.uid = quid]
         uid == TrimmedParam(quid)
     IN  rq' = [rq EXCEPT ![r] =
           IF ~Truthy(fileName) \/ ~Truthy(uid)
           THEN [req EXCEPT !.pc = "done",
                   !.res = Fail(400, "Falta el parametro fileName o uid")]
           ELSE IF ~StartsWith(fileName, OwnerPrefix(uid))
           THEN [req EXCEPT !.pc = "done",
                   !.res = Fail(403, "No autorizado para descargar este archivo")]
           ELSE [req EXCEPT !.pc = "authorize"]]
  /\ UNCHANGED <<registry, bucket, poller>>

\* const authResponse = await b2.authorize()
DownloadAuthorize(r, e) ==
  /\ rq[r].op = "GET /download" /\ rq[r].pc = "authorize"
  /\ Await(r, "authorize", e, "getDownloadAuthorization")
  /\ UNCHANGED <<registry, bucket, poller>>

\* await b2.getDownloadAuthorization({ bucketId, fileNamePrefix: fileName,
\* validDurationInSeconds }); the signed URL is composed and returned
DownloadGetAuthorization(r, e) ==
  /\ rq[r].op = "GET /download" /\ rq[r].pc = "getDownloadAuthorization"
  /\ LET req == [rq[r] EXCEPT !.calls = Append(@, "getDownloadAuthorization")]
         signedUrl == [base |-> "downloadUrl", bucketName |-> "B2_BUCKET_NAME",
                       fileName |-> req.fileName,
                       token |-> [fileNamePrefix |-> req.fileName,
                                  validFor |-> validDurationInSeconds]]
     IN  rq' = [rq EXCEPT ![r] =
                  IF e # "" THEN Catch(req, e)
                  ELSE [req EXCEPT !.pc = "done", !.res = Ok(signedUrl)]]
  /\ UNCHANGED <<registry, bucket, poller>>

\* ----------------------------------------------------- POST /send-notification
MissingMailFieldEitherBody(to, subject, text, html) ==
  ~Truthy(to) \/ ~Truthy(subject) \/ ~Truthy(text) \/ ~Truthy(html)

\* if (!to || !subject || (!text && !html))
MissingMailField(to, subject, text, html) ==
  ~Truthy(to) \/ ~Truthy(subject) \/ (~Truthy(text) /\ ~Truthy(html))

StartNotify(r, to, subject, text, html) ==
  /\ rq[r].pc = "idle"
  /\ LET req == [IdleReq EXCEPT !.op = "POST /send-notification", !.to = to,
                                !.subject = subject, !.text = text, !.html = html]
     IN  rq' = [rq EXCEPT ![r] =
           IF MissingMailField(to, subject, text, html)
           THEN [req EXCEPT !.pc = "done",
                   !.res = Fail(400, "Faltan datos para enviar el correo")]
           ELSE [req EXCEPT !.pc = "sendMail"]]
  /\ UNCHANGED <<registry, bucket, poller>>

\* const info = await transporter.sendMail({ from, to, subject, text, html })
NotifySendMail(r, e) ==
  /\ rq[r].op = "POST /send-notification" /\ rq[r].pc = "sendMail"
  /\ LET req == [rq[r] EXCEPT !.calls = Append(@, "sendMail")]
         info == [accepted |-> req.to, subject |-> req.subject]
     IN  rq' = [rq EXCEPT ![r] =
                  IF e # "" THEN Catch(req, e)
                  ELSE [req EXCEPT !.pc = "done", !.res = Ok(info)]]
  /\ UNCHANGED <<registry, bucket, poller>>

\* --------------------------------------------------------- reminder poller
\* checkUpcomingEvents and its schedule, which src/unnamed/part_000 keeps in
\* the variant of the server with the scheduled job.  Instants are in ms.

\* 5 * 60 * 1000
cincoMinutos == 5 * 60 * 1000

\* cron.schedule('* * * * *', ...): the job fires once per minute
cadaMinuto == 60 * 1000

InWindowAfterNow(eventDateTime, ahora) ==
  eventDateTime > ahora /\ eventDateTime <= ahora + cincoMinutos

\* eventDateTime >= ahora && eventDateTime <= cincoMinutosDespues
InWindow(eventDateTime, ahora) ==
  LET cincoMinutosDespues == ahora + cincoMinutos
  IN  eventDateTime >= ahora /\ eventDateTime <= cincoMinutosDespues

\* snapshot.forEach(async (doc) => { ... }): the callback of one document,
\* up to its first await or its end
ForEachCallback(evento, ahora) ==
  IF ~InWindow(evento.at, ahora)
  THEN [NoDoc EXCEPT !.pc = "skipped"]
  ELSE IF evento.email # ""
  THEN [pc |-> "sendMail", lookups |-> 0, sends |-> 1, to |-> evento.email]
  ELSE IF evento.userId # ""
  THEN [pc |-> "getUser", lookups |-> 1, sends |-> 0, to |-> ""]
  ELSE [NoDoc EXCEPT !.pc = "noEmail"]

GetUserContinuationAnyway(doc, e, userEmail) ==
  IF e = "" /\ userEmail = ""
  THEN [doc EXCEPT !.pc = "noEmail"]
  ELSE [doc EXCEPT !.pc = "sendMail", !.sends = @ + 1, !.to = userEmail]

\* email = userRecord.email, or the catch block's return; if (!email) return;
\* transporter.sendMail({ to: email, ... }, callback)
GetUserContinuation(doc, e, userEmail) ==
  IF e # "" THEN [doc EXCEPT !.pc = "lookupFailed"]
  ELSE IF userEmail = "" THEN [doc EXCEPT !.pc = "noEmail"]
  ELSE [doc EXCEPT !.pc = "sendMail", !.sends = @ + 1, !.to = userEmail]

\* the callbacks of a scan have all run to their end
Finished(scan) ==
  \A i \in DOMAIN scan.docs :
    scan.docs[i].pc \in {"skipped", "noEmail", "lookupFailed", "logged"}

TickGated ==
  /\ ticks < MaxTicks
  /\ \A t \in Scans : scans[t].pc = "idle"
  /\ now' = now + cadaMinuto
  /\ ticks' = ticks + 1
  /\ scans' = [scans EXCEPT ![1] =
                 [pc |-> "get", tick |-> ticks + 1, ahora |-> now + cadaMinuto,
                  docs |-> [i \in DOMAIN eventos |-> NoDoc]]]
  /\ UNCHANGED <<eventos, sent, missed, server>>

\* the cron fires: checkUpcomingEvents() is called, reads ahora = new Date()
\* and issues dbAdmin.collection("eventos").get(); the run takes the first
\* free place of scans
Tick ==
  /\ ticks < MaxTicks
  /\ \E s \in Scans :
       /\ scans[s].pc = "idle"
       /\ \A t \in Scans : t < s => scans[t].pc # "idle"
       /\ scans' = [scans EXCEPT ![s] =
                      [pc |-> "get", tick |-> ticks + 1, ahora |-> now + cadaMinuto,
                       docs |-> [i \in DOMAIN eventos |-> NoDoc]]]
  /\ now' = now + cadaMinuto
  /\ ticks' = ticks + 1
  /\ UNCHANGED <<eventos, sent, missed, server>>

SnapshotSettledOnce(s, e) ==
  /\ scans[s].pc = "get"
  /\ e = ""
  /\ LET docs == [i \in DOMAIN eventos |->
                    IF sent[i] > 0 THEN [NoDoc EXCEPT !.pc = "skipped"]
                    ELSE ForEachCallback(eventos[i], scans[s].ahora)]
     IN  /\ scans' = [scans EXCEPT ![s].pc = "each", ![s].docs = docs]
         /\ sent' = [i \in DOMAIN eventos |-> sent[i] + docs[i].sends]
  /\ UNCHANGED <<now, ticks, eventos, missed, server>>

\* const snapshot = await dbAdmin.collection("eventos").get() settles: on
\* rejection the catch block logs and the run ends; otherwise forEach runs
\* the callback of every document
SnapshotSettled(s, e) ==
  /\ scans[s].pc = "get"
  /\ IF e # ""
     THEN /\ scans' = [scans EXCEPT ![s].pc = "failed"]
          /\ missed' = [i \in DOMAIN eventos |->
                          missed[i] + IF InWindow(eventos[i].at, scans[s].ahora)
                                      THEN 1 ELSE 0]
          /\ UNCHANGED sent
     ELSE LET docs == [i \in DOMAIN eventos |->
                         ForEachCallback(eventos[i], scans[s].ahora)]
          IN  /\ scans' = [scans EXCEPT ![s].pc = "each", ![s].docs = docs]
              /\ sent' = [i \in DOMAIN eventos |-> sent[i] + docs[i].sends]
              /\ UNCHANGED missed
  /\ UNCHANGED <<now, ticks, eventos, server>>

\* await admin.auth().getUser(evento.userId) settles for document i
GetUserSettled(s, i, e, userEmail) ==
  /\ scans[s].pc = "each"
  /\ i \in DOMAIN scans[s].docs
  /\ scans[s].docs[i].pc = "getUser"
  /\ e # "" => userEmail = ""
  /\ LET doc == GetUserContinuation(scans[s].docs[i], e, userEmail)
     IN  /\ scans' = [scans EXCEPT ![s].docs[i] = doc]
         /\ sent' = [sent EXCEPT ![i] = @ + (doc.sends - scans[s].docs[i].sends)]
  /\ UNCHANGED <<now, ticks, eventos, missed, server>>

\* the callback of transporter.sendMail for document i: with an error or
\* without, it only writes to the log
SendMailCallback(s, i) ==
  /\ scans[s].pc = "each"
  /\ i \in DOMAIN scans[s].docs
  /\ scans[s].docs[i].pc = "sendMail"
  /\ scans' = [scans EXCEPT ![s].docs[i].pc = "logged"]
  /\ UNCHANGED <<now, ticks, eventos, sent, missed, server>>

\* nothing of the run is left pending: its place is free again
ScanEnd(s) ==
  /\ scans[s].pc \in {"each", "failed"}
  /\ scans[s].pc = "each" => Finished(scans[s])
  /\ scans' = [scans EXCEPT ![s] = NoScan]
  /\ UNCHANGED <<now, ticks, eventos, sent, missed, server>>

\* inputs of the poller
StoredEmail == "evento@mail"
UserEmails == {"", "user@mail"}
PollerOutcomes == {"", "UNAVAILABLE"}

\* events of minute 4, with and without a stored email and a userId
Soon == 4 * cadaMinuto
Colecciones ==
  {<<[at |-> Soon, email |-> "", userId |-> "u1"],
     [at |-> Soon, email |-> StoredEmail, userId |-> "u1"]>>,
   <<[at |-> Soon, email |-> "", userId |-> ""]>>}

\* an event of minute 6 with a stored email
Later == 6 * cadaMinuto
Recordatorios == {<<[at |-> Later, email |-> StoredEmail, userId |-> ""]>>}

\* the instants the cron reads are on the minute, 1 ms or half a minute late
Alignments == {0, 1, 30 * 1000}

\* the job starts at instant start with the collection coleccion
PollerStart(start, coleccion) ==
  /\ ServerStart
  /\ now = start
  /\ ticks = 0
  /\ eventos = coleccion
  /\ scans = [s \in Scans |-> NoScan]
  /\ sent = [i \in DOMAIN coleccion |-> 0]
  /\ missed = [i \in DOMAIN coleccion |-> 0]

InitPoller == \E coleccion \in Colecciones : PollerStart(0, coleccion)

InitReminders ==
  \E start \in Alignments, coleccion \in Recordatorios : PollerStart(start, coleccion)

NextPoller ==
  \/ Tick
  \/ \E s \in Scans, e \in PollerOutcomes : SnapshotSettled(s, e)
  \/ \E s \in Scans, i \in 1..2, e \in PollerOutcomes, userEmail \in UserEmails :
       GetUserSettled(s, i, e, userEmail)
  \/ \E s \in Scans, i \in 1..2 : SendMailCallback(s, i)
  \/ \E s \in Scans : ScanEnd(s)

\* the scheduled job alone, runs overlapping when one is still pending
SpecPoller == InitPoller /\ [][NextPoller]_vars

NextReminders ==
  \/ Tick
  \/ \E s \in Scans, e \in PollerOutcomes : SnapshotSettled(s, e)
  \/ \E s \in Scans : SendMailCallback(s, 1)
  \/ \E s \in Scans : ScanEnd(s)

\* the scheduled job over one event with a stored email, from before its
\* window opens until after it has closed
SpecReminders == InitReminders /\ [][NextReminders]_vars

\* inputs of the file endpoints
UploadUids == {Empty, U1, <<" ">> \o U1, U1 \o Slash \o D, <<" ">>}
FileUids == UploadUids \cup {U2}
Carpetas == {Empty, D, <<" ">>}
FileNames ==
  {Empty,
   Archivos \o U1 \o Slash \o FileF,
   Archivos \o U1 \o Slash \o D \o Slash \o FileF,
   Archivos \o U2 \o Slash \o FileF,
   Archivos \o U1 \o Slash \o D \o Slash \o D \o Slash \o FileF,
   Archivos \o <<" ">> \o U1 \o Slash \o FileF,
   Archivos \o U1,
   U1 \o Slash \o FileF}
FileIds == 0..MaxUploads
MailFields == {Empty, <<"x">>}

\* "" is a call that resolves, the others are the messages of rejections
Outcomes == {"", "ETIMEDOUT", "ECONNRESET"}

NextFiles ==
  \/ \E uid \in UploadUids, carpeta \in Carpetas, hasFile \in BOOLEAN :
       StartUpload(1, uid, carpeta, FileF, hasFile)
  \/ \E e \in Outcomes : UploadAuthorize(1, e)
  \/ \E e \in Outcomes : UploadGetUploadUrl(1, e)
  \/ \E e \in Outcomes : UploadReadFile(1, e)
  \/ \E e \in Outcomes : UploadFile(1, e)
  \/ \E e \in Outcomes : UploadUnlink(1, e)
  \/ \E uid \in FileUids : StartFiles(1, uid)
  \/ \E e \in Outcomes : FilesAuthorize(1, e)
  \/ \E e \in Outcomes : FilesList(1, e)
  \/ \E fileId \in FileIds, fileName \in FileNames, uid \in FileUids :
       StartDelete(1, fileId, fileName, uid)
  \/ \E e \in Outcomes : DeleteAuthorize(1, e)
  \/ \E e \in Outcomes : DeleteFileVersion(1, e)
  \/ \E fileName \in FileNames, uid \in FileUids : StartDownload(1, fileName, uid)
  \/ \E e \in Outcomes : DownloadAuthorize(1, e)
  \/ \E e \in Outcomes : DownloadGetAuthorization(1, e)
  \/ \E to \in MailFields, subject \in MailFields, text \in MailFields,
        html \in MailFields : StartNotify(1, to, subject, text, html)
  \/ \E e \in Outcomes : NotifySendMail(1, e)
  \/ Clear(1)

\* one client using the file and notification endpoints, one request at a time
SpecFiles == Init /\ [][NextFiles]_vars

NextAuth ==
  \/ \E fileId \in FileIds, fileName \in FileNames, uid \in FileUids :
       StartDelete(1, fileId, fileName, uid)
  \/ \E e \in Outcomes : DeleteAuthorize(1, e)
  \/ \E e \in Outcomes : DeleteFileVersion(1, e)
  \/ \E fileName \in FileNames, uid \in FileUids : StartDownload(2, fileName, uid)
  \/ \E e \in Outcomes : DownloadAuthorize(2, e)
  \/ \E e \in Outcomes : DownloadGetAuthorization(2, e)
  \/ \E r \in {1, 2} : Clear(r)

\* a DELETE /file and a GET /download in progress at the same time
SpecAuth == Init /\ [][NextAuth]_vars

\* inputs of the whole server: one well-formed and one missing value each
SomeUids == {Empty, U1}
SomeFileNames == {Archivos \o U1 \o Slash \o FileF, Archivos \o U2 \o Slash \o FileF}
SomeOutcomes == {"", "ETIMEDOUT"}

Next ==
  \E r \in Reqs :
    \/ \E name \in {Empty, Docs}, uid \in SomeUids : PostFolder(r, name, uid)
    \/ \E uid \in SomeUids : GetFolders(r, uid)
    \/ \E uid \in SomeUids : StartUpload(r, uid, Empty, FileF, TRUE)
    \/ \E e \in SomeOutcomes : UploadAuthorize(r, e)
    \/ \E e \in SomeOutcomes : UploadGetUploadUrl(r, e)
    \/ \E e \in SomeOutcomes : UploadReadFile(r, e)
    \/ \E e \in SomeOutcomes : UploadFile(r, e)
    \/ \E e \in SomeOutcomes : UploadUnlink(r, e)
    \/ \E uid \in SomeUids : StartFiles(r, uid)
    \/ \E e \in SomeOutcomes : FilesAuthorize(r, e)
    \/ \E e \in SomeOutcomes : FilesList(r, e)
    \/ \E fileId \in {0, 1}, fileName \in SomeFileNames : StartDelete(r, fileId, fileName, U1)
    \/ \E e \in SomeOutcomes : DeleteAuthorize(r, e)
    \/ \E e \in SomeOutcomes : DeleteFileVersion(r, e)
    \/ \E fileName \in SomeFileNames : StartDownload(r, fileName, U1)
    \/ \E e \in SomeOutcomes : DownloadAuthorize(r, e)
    \/ \E e \in SomeOutcomes : DownloadGetAuthorization(r, e)
    \/ \E to \in MailFields : StartNotify(r, to, <<"x">>, <<"x">>, Empty)
    \/ \E e \in SomeOutcomes : NotifySendMail(r, e)
    \/ Clear(r)

\* the whole server: every endpoint, MaxReqs requests in progress at once
Spec == Init /\ [][Next]_vars

\* the file of the requests that run side by side
TheFile == Archivos \o U1 \o Slash \o FileF

NextStore ==
  \E r \in Reqs :
    \/ StartUpload(r, U1, Empty, FileF, TRUE)
    \/ \E e \in SomeOutcomes : UploadAuthorize(r, e)
    \/ \E e \in SomeOutcomes : UploadGetUploadUrl(r, e)
    \/ \E e \in SomeOutcomes : UploadReadFile(r, e)
    \/ \E e \in SomeOutcomes : UploadFile(r, e)
    \/ \E e \in SomeOutcomes : UploadUnlink(r, e)
    \/ StartFiles(r, U1)
    \/ \E e \in SomeOutcomes : FilesAuthorize(r, e)
    \/ \E e \in SomeOutcomes : FilesList(r, e)
    \/ StartDelete(r, 1, TheFile, U1)
    \/ \E e \in SomeOutcomes : DeleteAuthorize(r, e)
    \/ \E e \in SomeOutcomes : DeleteFileVersion(r, e)
    \/ StartDownload(r, TheFile, U1)
    \/ \E e \in SomeOutcomes : DownloadAuthorize(r, e)
    \/ \E e \in SomeOutcomes : DownloadGetAuthorization(r, e)
    \/ Clear(r)

\* the object-store endpoints, MaxReqs requests of one user in progress at
\* once, their steps interleaved in every order
SpecStore == Init /\ [][NextStore]_vars

NextRegistry ==
  \/ \E name \in {Empty, Docs}, uid \in SomeUids : PostFolder(1, name, uid)
  \/ \E uid \in SomeUids : GetFolders(1, uid)
  \/ Clear(1)
  \/ \E r \in Reqs \ {1} :
       \/ StartUpload(r, U1, D, FileF, TRUE)
       \/ \E e \in SomeOutcomes : UploadAuthorize(r, e)
       \/ \E e \in SomeOutcomes : UploadGetUploadUrl(r, e)
       \/ \E e \in SomeOutcomes : UploadReadFile(r, e)
       \/ \E e \in SomeOutcomes : UploadFile(r, e)
       \/ \E e \in SomeOutcomes : UploadUnlink(r, e)
       \/ StartFiles(r, U1)
       \/ \E e \in SomeOutcomes : FilesAuthorize(r, e)
       \/ \E e \in SomeOutcomes : FilesList(r, e)
       \/ StartDelete(r, 1, Archivos \o U1 \o Slash \o D \o Slash \o FileF, U1)
       \/ \E e \in SomeOutcomes : DeleteAuthorize(r, e)
       \/ \E e \in SomeOutcomes : DeleteFileVersion(r, e)
       \/ StartDownload(r, Archivos \o U1 \o Slash \o D \o Slash \o FileF, U1)
       \/ \E e \in SomeOutcomes : DownloadAuthorize(r, e)
       \/ \E e \in SomeOutcomes : DownloadGetAuthorization(r, e)
       \/ StartNotify(r, <<"x">>, <<"x">>, <<"x">>, Empty)
       \/ \E e \in SomeOutcomes : NotifySendMail(r, e)
       \/ Clear(r)

\* the folder endpoints, which run to their end in one step, in the first
\* place and the asynchronous endpoints in the other places, so that every
\* step of a file or notification request is interleaved with the folder
\* requests
SpecRegistry == Init /\ [][NextRegistry]_vars

\* ================================================================ claims
\* data lists, in creation order, exactly the folders whose uid is q
ExactlyFoldersOf(data, q) ==
  /\ \A i \in DOMAIN data : data[i] \in Range(folders) /\ data[i].uid = q
  /\ \A j \in DOMAIN folders :
       folders[j].uid = q => \E i \in DOMAIN data : data[i] = folders[j]
  /\ \A i, k \in DOMAIN data : i < k => data[i].id < data[k].id

\* C1: ids are handed out 1, 2, 3, ... in the order of the successful
\* POST /folder requests: the record at position k has id k, a created
\* record is answered as stored, a rejected create consumes no id (the
\* counter is always one more than the number of records), and no two
\* records share an id.
C1_IdsUniqueMonotonic ==
  /\ \A i \in DOMAIN folders : folders[i].id = i
  /\ \A i, j \in DOMAIN folders : i # j => folders[i].id # folders[j].id
  /\ folderIdCounter = Len(folders) + 1
  /\ \A r \in Reqs :
       (rq[r].op = "POST /folder" /\ rq[r].res.status = 200) =>
         /\ rq[r].res.data.id \in DOMAIN folders
         /\ folders[rq[r].res.data.id] = rq[r].res.data

\* C1 witness: two folders exist and a create has just been rejected
C1_Witness ==
  /\ Len(folders) >= 2
  /\ \E r \in Reqs : rq[r].op = "POST /folder" /\ rq[r].res.status = 400

\* C2 (as claimed): every folder created with uid value u is in the answer
\* of a later GET /folders with the same uid value u, white space around
\* u included (taken here only for uids that are not white space alone).
C2_CreateThenList ==
  \A r \in Reqs :
    (rq[r].op = "GET /folders" /\ rq[r].pc = "done" /\ Trim(rq[r].uid) # Empty) =>
      \A j \in DOMAIN folders :
        folders[j].uid = rq[r].uid =>
          /\ rq[r].res.status = 200
          /\ folders[j] \in Range(rq[r].res.data)

\* C3 (as claimed): a GET /folders answered 200 lists exactly the folders
\* whose uid field equals the uid of the query, in creation order.
C3_ListExactlyQueryUid ==
  \A r \in Reqs :
    (rq[r].op = "GET /folders" /\ rq[r].res.status = 200) =>
      ExactlyFoldersOf(rq[r].res.data, rq[r].uid)

\* C3 (amended): GET /folders is answered 400 when the query uid is empty
\* after trimming white space, and otherwise 200 with exactly the folders
\* whose uid field equals the TRIMMED query uid, in creation order; no
\* folder with another uid field is ever listed.
C3_ListExactlyTrimmedUid ==
  \A r \in Reqs :
    (rq[r].op = "GET /folders" /\ rq[r].pc = "done") =>
      LET q == Trim(rq[r].uid)
      IN  IF q = Empty
          THEN rq[r].res.status = 400 /\ ~rq[r].res.success
          ELSE /\ rq[r].res.status = 200
               /\ rq[r].res.success
               /\ ExactlyFoldersOf(rq[r].res.data, q)

\* C3 witness: two folders of one user listed while another user has one
C3_Witness ==
  \E r \in Reqs :
    /\ rq[r].op = "GET /folders"
    /\ rq[r].res.status = 200
    /\ Len(rq[r].res.data) = 2
    /\ \E j \in DOMAIN folders : folders[j].uid # Trim(rq[r].uid)

\* C9: POST /folder with an empty name or uid is answered 400 and changes
\* neither the list nor the counter; with both non-empty it is answered 200
\* with the record {id, name, uid} of the request, which is the one record
\* appended, whether or not the same (name, uid) is already stored.
C9_CreateValidation ==
  [][\A r \in Reqs :
       (rq[r].pc = "idle" /\ rq'[r].op = "POST /folder") =>
         LET n == rq'[r].name
             u == rq'[r].uid
             res == rq'[r].res
         IN  IF n = Empty \/ u = Empty
             THEN /\ res.status = 400
                  /\ ~res.success
                  /\ folders' = folders
                  /\ folderIdCounter' = folderIdCounter
             ELSE /\ res.status = 200
                  /\ res.success
                  /\ res.data = [id |-> folderIdCounter, name |-> n, uid |-> u]
                  /\ folders' = Append(folders, res.data)
                  /\ folderIdCounter' = folderIdCounter + 1]_vars

\* C9 witness: a create has succeeded for a (name, uid) stored before
C9_Witness ==
  \E r \in Reqs :
    /\ rq[r].op = "POST /folder"
    /\ rq[r].res.status = 200
    /\ \E i \in DOMAIN folders :
         /\ i < rq[r].res.data.id
         /\ folders[i].name = rq[r].name
         /\ folders[i].uid = rq[r].uid

\* s begins with p
BeginsWith(s, p) == \E k \in 0..Len(s) : SubSeq(s, 1, k) = p

\* fileName lies under archivos/{uid}/
Under(fileName, uid) == BeginsWith(fileName, Archivos \o uid \o Slash)

\* the request was neither rejected as incomplete nor as unauthorized
Passed(r) == rq[r].op # "none" /\ rq[r].res.status \notin {400, 403}

\* C4 (as claimed): a DELETE /file or GET /download whose fileName does not
\* begin with archivos/{uid}/ for the uid supplied is answered 403, whatever
\* the fileId (absent included) and the store (taken here only for requests
\* that do give a fileName and a uid).
C4_NoPrefixAlways403 ==
  \A r \in Reqs :
    (/\ rq[r].op \in {"DELETE /file", "GET /download"}
     /\ rq[r].fileName # Empty
     /\ rq[r].uid # Empty
     /\ ~Under(rq[r].fileName, rq[r].uid)) => rq[r].res.status = 403

\* C4 (amended): DELETE /file is answered 400 when fileId, fileName or uid
\* is missing or empty, and otherwise 403 when fileName does not begin with
\* archivos/{uid}/ for the uid supplied; GET /download is answered 400 when
\* fileName is missing or the uid is empty after trimming white space, and
\* otherwise 403 when fileName does not begin with archivos/{u}/ for the
\* trimmed uid u; in both cases whatever the store contains.
C4_MissingThen400ElseNoPrefix403 ==
  \A r \in Reqs :
    /\ rq[r].op = "DELETE /file" =>
         IF rq[r].fileId = 0 \/ rq[r].fileName = Empty \/ rq[r].uid = Empty
         THEN rq[r].res.status = 400
         ELSE ~Under(rq[r].fileName, rq[r].uid) => rq[r].res.status = 403
    /\ rq[r].op = "GET /download" =>
         IF rq[r].fileName = Empty \/ Trim(rq[r].uid) = Empty
         THEN rq[r].res.status = 400
         ELSE ~Under(rq[r].fileName, Trim(rq[r].uid)) => rq[r].res.status = 403

\* C4 witness: a delete of a version the store holds is refused with 403
C4_Witness ==
  \E r \in Reqs :
    /\ rq[r].op = "DELETE /file"
    /\ rq[r].res.status = 403
    /\ [fileId |-> rq[r].fileId, fileName |-> rq[r].fileName] \in store

\* C5 (as claimed): with F the fileName answered to the latest upload, sent
\* with uid u1, a delete (fileId given) or download of F passes the checks
\* when its uid is u1 and is answered 403 when its uid is any other
\* non-empty string, '/' allowed in both (taken here only for uids without
\* white space around them).
C5_CrossUserIsolation ==
  \A r \in Reqs :
    (/\ rq[r].op \in {"DELETE /file", "GET /download"}
     /\ lastUpload # NoUpload
     /\ rq[r].fileName = lastUpload.fileName
     /\ rq[r].uid # Empty
     /\ rq[r].uid = Trim(rq[r].uid)
     /\ lastUpload.uid = Trim(lastUpload.uid)
     /\ rq[r].op = "DELETE /file" => rq[r].fileId # 0) =>
      IF rq[r].uid = lastUpload.uid THEN Passed(r) ELSE rq[r].res.status = 403

\* C6 (as claimed): a DELETE /file with the fileId, fileName and uid of the
\* latest successful upload is answered 200 unless the store call itself
\* fails, and afterwards, until the name is uploaded again, a GET /files
\* for that uid does not list the fileName.
C6_OwnerDeleteRemoves ==
  \A r \in Reqs :
    /\ (/\ rq[r].op = "DELETE /file"
        /\ rq[r].pc = "done"
        /\ rq[r].thrown = ""
        /\ lastUpload # NoUpload
        /\ rq[r].fileId = lastUpload.fileId
        /\ rq[r].fileName = lastUpload.fileName
        /\ rq[r].uid = lastUpload.uid) => rq[r].res.status = 200
    /\ (/\ rq[r].op = "GET /files"
        /\ rq[r].res.status = 200
        /\ lastDelete # NoDelete
        /\ rq[r].uid = lastDelete.uid) =>
         \A v \in rq[r].res.data : v.fileName # lastDelete.fileName

\* archivos/ + uid + / + (carpeta + / when carpeta is not empty) + name
PathOf(uid, carpeta, name) ==
  Archivos \o uid \o Slash
    \o (IF carpeta # Empty THEN carpeta \o Slash ELSE Empty) \o name

\* C7 (as claimed): the path an upload hands to the store and answers is
\* archivos/ + uid + / + (carpeta + /) + original name for the uid and the
\* carpeta of the request, so it lies under archivos/{uid}/.
C7_PathOfRequestFields ==
  \A r \in Reqs :
    (rq[r].op = "POST /upload" /\ rq[r].fileId # 0) =>
      /\ rq[r].refPath = PathOf(rq[r].uid, rq[r].carpeta, rq[r].name)
      /\ Under(rq[r].refPath, rq[r].uid)

\* C7 (amended): every path the upload handler writes to the store, and
\* answers, is archivos/ + u + / + (c + / when c is not empty) + original
\* name, u and c being the uid and the carpeta of the request with white
\* space trimmed, so it lies under archivos/{u}/; and a download of the
\* answered fileName with the uid value the uploader sent passes the
\* download check.
C7_PathOfTrimmedFields ==
  /\ [](\A r \in Reqs :
          /\ (rq[r].op = "POST /upload" /\ rq[r].fileId # 0) =>
               /\ rq[r].refPath =
                    PathOf(Trim(rq[r].uid), Trim(rq[r].carpeta), rq[r].name)
               /\ Under(rq[r].refPath, Trim(rq[r].uid))
          /\ (rq[r].op = "POST /upload" /\ rq[r].res.status = 200) =>
               rq[r].res.data.fileName =
                 PathOf(Trim(rq[r].uid), Trim(rq[r].carpeta), rq[r].name)
          /\ (/\ rq[r].op = "GET /download"
              /\ lastUpload # NoUpload
              /\ rq[r].fileName = lastUpload.fileName
              /\ rq[r].uid = lastUpload.uid) => Passed(r))
  /\ [][\A v \in store' \ store :
          \E r \in Reqs :
            /\ rq[r].op = "POST /upload"
            /\ v.fileName =
                 PathOf(Trim(rq[r].uid), Trim(rq[r].carpeta), rq[r].name)]_vars

\* C7 witness: an upload with white space around the uid and a carpeta
\* has been answered 200
C7_Witness ==
  \E r \in Reqs :
    /\ rq[r].op = "POST /upload"
    /\ rq[r].res.status = 200
    /\ rq[r].uid # Trim(rq[r].uid)
    /\ Trim(rq[r].carpeta) # Empty

\* C8 (as claimed): for the same non-empty fileName and uid (and a fileId
\* for the delete), DELETE /file passes the authorization check exactly
\* when GET /download passes it.
C8_SameAuthorization ==
  \A d, g \in Reqs :
    (/\ rq[d].op = "DELETE /file"
     /\ rq[g].op = "GET /download"
     /\ rq[d].fileId # 0
     /\ rq[d].fileName # Empty
     /\ rq[d].uid # Empty
     /\ rq[d].fileName = rq[g].fileName
     /\ rq[d].uid = rq[g].uid) => (Passed(d) <=> Passed(g))

\* C10: in every handler an exception ends the request at once with 500,
\* success false and the exception's message as error; 500 is answered
\* for nothing else; no external call is made twice by a request; and a
\* request that has been answered or has failed makes no further call and
\* is not answered again.
C10_CaughtOnceNoRetry ==
  /\ [](\A r \in Reqs :
          /\ rq[r].thrown # "" =>
               /\ rq[r].pc = "done"
               /\ rq[r].res.status = 500
               /\ ~rq[r].res.success
               /\ rq[r].res.error = rq[r].thrown
          /\ rq[r].res.status = 500 => rq[r].thrown # ""
          /\ \A i, j \in DOMAIN rq[r].calls :
               i # j => rq[r].calls[i] # rq[r].calls[j])
  /\ [][\A r \in Reqs :
          (rq[r].thrown # "" \/ rq[r].res.status # 0) =>
            (rq'[r] = rq[r] \/ rq'[r] = IdleReq)]_vars

\* C10 witness: an upload whose fourth external call, uploadFile, failed
C10_Witness ==
  \E r \in Reqs :
    /\ rq[r].op = "POST /upload"
    /\ rq[r].thrown # ""
    /\ rq[r].res.status = 500
    /\ rq[r].calls = <<"authorize", "getUploadUrl", "readFileSync", "uploadFile">>

\* C11: POST /send-notification is answered 400, the mail transport not
\* called, unless to and subject are non-empty and text or html is; otherwise
\* the transport is called exactly once, and the answer is 200 with the
\* transport's info object when the call resolves and 500 with the message
\* of the failure when it rejects.
C11_NotifyValidation ==
  \A r \in Reqs :
    rq[r].op = "POST /send-notification" =>
      IF rq[r].to = Empty \/ rq[r].subject = Empty
           \/ (rq[r].text = Empty /\ rq[r].html = Empty)
      THEN /\ rq[r].pc = "done"
           /\ rq[r].res.status = 400
           /\ ~rq[r].res.success
           /\ rq[r].calls = <<>>
      ELSE /\ rq[r].pc \in {"sendMail", "done"}
           /\ rq[r].pc = "sendMail" => rq[r].calls = <<>> /\ rq[r].res = NoRes
           /\ rq[r].pc = "done" =>
                /\ rq[r].calls = <<"sendMail">>
                /\ IF rq[r].thrown = ""
                   THEN /\ rq[r].res.status = 200
                        /\ rq[r].res.success
                        /\ rq[r].res.data =
                             [accepted |-> rq[r].to, subject |-> rq[r].subject]
                   ELSE /\ rq[r].res.status = 500
                        /\ ~rq[r].res.success
                        /\ rq[r].res.error = rq[r].thrown

\* C11 witness: a mail with html and no text has been sent and answered 200
C11_Witness ==
  \E r \in Reqs :
    /\ rq[r].op = "POST /send-notification"
    /\ rq[r].res.status = 200
    /\ rq[r].text = Empty
    /\ rq[r].html # Empty
    /\ rq[r].calls = <<"sendMail">>

\* the operations of the object store that need an authorization
StoreOps ==
  {"getUploadUrl", "uploadFile", "listFileNames", "deleteFileVersion",
   "getDownloadAuthorization"}

\* C12: in every request, whatever the other requests in progress do, each
\* object-store operation comes after an authorize call of that same
\* request: authorize is the first call of the request, it is made before
\* any operation of the store, and an operation is only issued once the
\* request's own authorize has resolved.
C12_OwnAuthorizeFirst ==
  \A r \in Reqs :
    /\ \A i \in DOMAIN rq[r].calls :
         rq[r].calls[i] \in StoreOps =>
           \E j \in 1..(i - 1) : rq[r].calls[j] = "authorize"
    /\ (rq[r].op \in {"POST /upload", "GET /files", "DELETE /file", "GET /download"}
          /\ rq[r].calls # <<>>) => rq[r].calls[1] = "authorize"
    /\ rq[r].pc \in StoreOps => "authorize" \in Range(rq[r].calls)

\* C12 witness: a delete has removed a version after its own authorize
\* while another request, authorized after it, is about to list
C12_Witness ==
  \E r, q \in Reqs :
    /\ r # q
    /\ rq[r].op = "DELETE /file"
    /\ rq[r].res.status = 200
    /\ rq[r].calls = <<"authorize", "deleteFileVersion">>
    /\ rq[q].op = "GET /files"
    /\ rq[q].pc = "listFileNames"

\* the newest version of every file name of the store that begins with p
NewestUnder(p) ==
  {v \in store :
     /\ BeginsWith(v.fileName, p)
     /\ ~\E w \in store : w.fileName = v.fileName /\ w.fileId > v.fileId}

\* C13: GET /files asks the store for the names under archivos/{uid}/ when
\* the uid of the query is not blank (the uid as the handler reads it, white
\* space around it trimmed) and under archivos/ when it is omitted or
\* blank, at most 100 of them: so with a uid every key answered lies under
\* archivos/{uid}/, without one the files of every user are answered, and
\* the endpoint never answers 400 or 403.
C13_ListByPrefix ==
  \A r \in Reqs :
    rq[r].op = "GET /files" =>
      /\ rq[r].res.status \in {0, 200, 500}
      /\ rq[r].res.status = 200 =>
           LET uid == Trim(rq[r].uid)
               data == rq[r].res.data
           IN  /\ Cardinality(data) <= 100
               /\ IF uid # Empty
                  THEN /\ data = NewestUnder(Archivos \o uid \o Slash)
                       /\ \A v \in data : Under(v.fileName, uid)
                  ELSE /\ data = NewestUnder(Archivos)
                       /\ \A v \in store : \E w \in data : w.fileName = v.fileName

\* C13 witness: a listing with a uid has answered some of the files of the
\* store and not all of them
C13_Witness ==
  \E r \in Reqs :
    /\ rq[r].op = "GET /files"
    /\ rq[r].res.status = 200
    /\ Trim(rq[r].uid) # Empty
    /\ rq[r].res.data # {}
    /\ \E v \in store : v \notin rq[r].res.data

\* now <= eventDateTime <= now + 5 min, for the instant a tick has read
Within5Min(eventDateTime, tickNow) ==
  tickNow <= eventDateTime /\ eventDateTime <= tickNow + 300000

\* the runs of the poller that have fetched the collection
Fetched == {s \in Scans : scans[s].pc = "each"}

\* C14: the decision of a tick is memoryless.  For every run that has
\* fetched the collection and every event, with now the instant read at
\* the start of the tick: outside now <= eventDateTime <= now + 5 min the
\* event is skipped, nothing looked up, nothing sent; inside it exactly one
\* reminder is initiated as soon as a recipient is known (at once for a
\* stored email, when the lookup resolves with an email otherwise) and none
\* when there is no recipient; and this whatever was sent for the event
\* before, so an event inside the window of two consecutive ticks is sent
\* a reminder by both.
C14_MemorylessWindow ==
  /\ \A s \in Fetched : \A i \in DOMAIN eventos :
       LET doc == scans[s].docs[i]
           evento == eventos[i]
       IN  IF ~Within5Min(evento.at, scans[s].ahora)
           THEN doc.pc = "skipped" /\ doc.sends = 0 /\ doc.lookups = 0
           ELSE /\ doc.pc # "skipped"
                /\ evento.email # "" => doc.sends = 1 /\ doc.to = evento.email
                /\ (evento.email = "" /\ evento.userId = "") =>
                     doc.pc = "noEmail" /\ doc.sends = 0
                /\ (evento.email = "" /\ evento.userId # "") =>
                     /\ doc.pc \in {"getUser", "lookupFailed", "noEmail",
                                    "sendMail", "logged"}
                     /\ doc.pc \in {"getUser", "lookupFailed", "noEmail"} =>
                          doc.sends = 0 /\ doc.to = ""
                     /\ doc.pc \in {"sendMail", "logged"} =>
                          doc.sends = 1 /\ doc.to \in UserEmails \ {""}
  /\ \A s, t \in Fetched : \A i \in DOMAIN eventos :
       (/\ scans[t].tick = scans[s].tick + 1
        /\ eventos[i].email # ""
        /\ Within5Min(eventos[i].at, scans[s].ahora)
        /\ Within5Min(eventos[i].at, scans[t].ahora)) =>
         /\ scans[s].docs[i].sends = 1
         /\ scans[t].docs[i].sends = 1
         /\ sent[i] >= 2

\* C14 witness: the runs of two consecutive ticks have both sent a reminder
\* for one event, the later one at the very instant of the event
C14_Witness ==
  \E s, t \in Fetched : \E i \in DOMAIN eventos :
    /\ scans[t].tick = scans[s].tick + 1
    /\ scans[s].docs[i].sends = 1
    /\ scans[t].docs[i].sends = 1
    /\ scans[t].ahora = eventos[i].at
    /\ sent[i] >= 2

\* C15: in one run of the poller, for an event inside the window (3 min
\* ahead included): without a stored email and with a userId the identity
\* lookup is invoked exactly once, and exactly one email is sent, to the
\* address the lookup resolved; with a stored email no lookup is made; when
\* the lookup fails or resolves no email, or there is neither email nor
\* userId, nothing is sent for that event, and the other events of the
\* snapshot are processed all the same.
C15_LookupOnceSendOnce ==
  \A s \in Fetched : \A i \in DOMAIN eventos :
    LET doc == scans[s].docs[i]
        evento == eventos[i]
    IN  Within5Min(evento.at, scans[s].ahora) =>
          /\ doc.lookups = (IF evento.email = "" /\ evento.userId # "" THEN 1 ELSE 0)
          /\ doc.sends \in {0, 1}
          /\ doc.pc \in {"lookupFailed", "noEmail", "getUser"} => doc.sends = 0
          /\ (doc.lookups = 1 /\ doc.pc \in {"sendMail", "logged"}) =>
               doc.sends = 1 /\ doc.to = "user@mail"
          /\ evento.email # "" =>
               doc.lookups = 0 /\ doc.sends = 1 /\ doc.to = evento.email
          /\ \A k \in DOMAIN eventos :
               (k # i /\ eventos[k].email # "") => scans[s].docs[k].sends = 1

\* C15 witness: a run that started 3 min before the events has looked up
\* the first one's user once and sent one email to the address found,
\* while in another run the lookup has failed and the second event has
\* still been sent its reminder
C15_Witness ==
  \E s, t \in Fetched :
    /\ Len(eventos) = 2
    /\ eventos[1].email = ""
    /\ scans[s].ahora + 180000 = eventos[1].at
    /\ scans[s].docs[1].lookups = 1
    /\ scans[s].docs[1].sends = 1
    /\ scans[s].docs[1].to = "user@mail"
    /\ scans[t].docs[1].pc = "lookupFailed"
    /\ scans[t].docs[1].sends = 0
    /\ scans[t].docs[2].sends = 1

\* the ticks so far that found event i inside their window, the cron having
\* fired every 60 s since the job started
WindowTicks(i) ==
  LET start == now - ticks * 60000
  IN  Cardinality({k \in 1..ticks : Within5Min(eventos[i].at, start + k * 60000)})

\* the runs that still wait for their snapshot, event i inside their window
Pending(i) ==
  Cardinality({s \in Scans :
                 scans[s].pc = "get" /\ Within5Min(eventos[i].at, scans[s].ahora)})

\* no later tick can find event i inside its window, and every run so far
\* has its snapshot or has failed to get it
WindowOver(i) ==
  /\ eventos[i].at < now + 60000
  /\ \A s \in Scans : scans[s].pc # "get"

InProgress ==
  {s \in Scans : scans[s].pc = "get" \/ (scans[s].pc = "each" /\ ~Finished(scans[s]))}

\* C17: nothing gates a tick on the end of the run before it: the cron can
\* fire whatever the earlier runs are waiting for (as long as the model has
\* a tick and a place left), so two runs can be in progress at once; and
\* runs in progress at once decide each for itself: each of them whose
\* window holds an event with a stored email sends that event a reminder.
C17_TickNotGated ==
  /\ (ticks < MaxTicks /\ \E s \in Scans : scans[s].pc = "idle") => ENABLED Tick
  /\ \A s, t \in Fetched : \A i \in DOMAIN eventos :
       (/\ s # t
        /\ eventos[i].email # ""
        /\ Within5Min(eventos[i].at, scans[s].ahora)
        /\ Within5Min(eventos[i].at, scans[t].ahora)) =>
         /\ scans[s].docs[i].to = eventos[i].email
         /\ scans[t].docs[i].to = eventos[i].email
         /\ scans[s].docs[i].sends + scans[t].docs[i].sends = 2

\* C17 witness: a run is still waiting for the identity lookup of one
\* event when the run of the next tick is under way, and both have sent a
\* reminder for the other event
C17_Witness ==
  \E s, t \in InProgress :
    /\ scans[t].tick > scans[s].tick
    /\ Len(eventos) = 2
    /\ scans[s].pc = "each"
    /\ scans[s].docs[1].pc = "getUser"
    /\ scans[s].docs[2].pc = "sendMail"
    /\ scans[t].pc = "each"
    /\ scans[t].docs[2].pc = "sendMail"

\* the step is a POST /folder answered 200 in place r
CreatesFolder(r) ==
  /\ rq[r].pc = "idle"
  /\ rq'[r].op = "POST /folder"
  /\ rq'[r].res.status = 200

\* C18: the folder registry is append-only under every interleaving of
\* requests.  In every step each stored record stays what and where it
\* was; the list and the counter change only in the step of a POST /folder
\* answered 200, which appends the answered record and adds one to the
\* counter; every other step (GET /folders, a rejected POST /folder, any
\* step of upload, files, file delete, download, send-notification) leaves
\* both unchanged.  In every state the counter is the number of folders
\* plus one and the ids are 1..n in list order, and an upload is never
\* refused for its carpeta: it is answered 400 only for an empty uid.
C18_RegistryAppendOnly ==
  /\ [](/\ folderIdCounter = Len(folders) + 1
        /\ \A i \in DOMAIN folders : folders[i].id = i
        /\ \A r \in Reqs :
             (rq[r].op = "POST /upload" /\ Trim(rq[r].uid) # Empty) =>
               \/ rq[r].res.status \in {0, 200}
               \/ rq[r].res.status = 500 /\ rq[r].thrown # "")
  /\ [][/\ \A i \in DOMAIN folders :
             i \in DOMAIN folders' /\ folders'[i] = folders[i]
        /\ IF \E r \in Reqs : CreatesFolder(r)
           THEN \E r \in Reqs :
                  /\ CreatesFolder(r)
                  /\ folders' = Append(folders, rq'[r].res.data)
                  /\ rq'[r].res.data =
                       [id |-> folderIdCounter, name |-> rq'[r].name,
                        uid |-> rq'[r].uid]
                  /\ folderIdCounter' = folderIdCounter + 1
           ELSE folders' = folders /\ folderIdCounter' = folderIdCounter]_vars

\* C18 witness: with a folder stored and none named like its carpeta, an
\* upload has been answered 200 while a create was being rejected
C18_Witness ==
  \E r, q \in Reqs :
    /\ rq[r].op = "POST /upload"
    /\ rq[r].res.status = 200
    /\ rq[r].carpeta # Empty
    /\ Len(folders) >= 1
    /\ \A i \in DOMAIN folders : folders[i].name # rq[r].carpeta
    /\ rq[q].op = "POST /folder"
    /\ rq[q].res.status = 400

\* the request has made the call
Called(r, call) == call \in Range(rq[r].calls)

\* C19 (as claimed): an upload, file delete, download or notification
\* answered 400 or 403 has made no external call, and deleteFileVersion and
\* getDownloadAuthorization are only issued for a fileName that begins with
\* archivos/{uid}/ for the uid the request supplied.
C19_ChecksBeforeEffects ==
  \A r \in Reqs :
    /\ rq[r].res.status \in {400, 403} => rq[r].calls = <<>>
    /\ Called(r, "deleteFileVersion") => Under(rq[r].fileName, rq[r].uid)
    /\ Called(r, "getDownloadAuthorization") => Under(rq[r].fileName, rq[r].uid)

\* C19 (amended): an upload, file delete, download or notification
\* answered 400 or 403 has made no external call; deleteFileVersion is only
\* issued for a fileName that begins with archivos/{uid}/ for the uid
\* supplied, and getDownloadAuthorization only for one that begins with
\* archivos/{u}/ for the supplied uid u with white space trimmed; and the
\* fileId plays no part: once the checks pass and authorize resolves, the
\* delete is issued for whatever non-empty fileId was sent.
C19_ChecksBeforeEffectsTrimmed ==
  \A r \in Reqs :
    /\ rq[r].res.status \in {400, 403} => rq[r].calls = <<>>
    /\ rq[r].op = "DELETE /file" =>
         /\ (Called(r, "authorize") \/ Called(r, "deleteFileVersion")) =>
              /\ rq[r].fileId # 0
              /\ Under(rq[r].fileName, rq[r].uid)
         /\ (/\ rq[r].pc = "done"
             /\ rq[r].fileId # 0
             /\ rq[r].uid # Empty
             /\ Under(rq[r].fileName, rq[r].uid)) =>
              \/ rq[r].calls = <<"authorize">> /\ rq[r].thrown # ""
              \/ rq[r].calls = <<"authorize", "deleteFileVersion">>
    /\ (/\ rq[r].op = "GET /download"
        /\ (Called(r, "authorize") \/ Called(r, "getDownloadAuthorization"))) =>
         /\ Trim(rq[r].uid) # Empty
         /\ Under(rq[r].fileName, Trim(rq[r].uid))
    /\ (rq[r].op = "POST /upload" /\ rq[r].calls # <<>>) => Trim(rq[r].uid) # Empty

\* C19 witness: a delete has been issued to the store with the fileId of a
\* version stored under another name
C19_Witness ==
  \E r \in Reqs :
    /\ rq[r].op = "DELETE /file"
    /\ Called(r, "deleteFileVersion")
    /\ \E v \in store : v.fileId = rq[r].fileId /\ v.fileName # rq[r].fileName

\* the last external call the request has made
LastCall(r) == rq[r].calls[Len(rq[r].calls)]

\* C20: the temp file of an upload is deleted only after the store upload
\* has succeeded, and 200 is answered only after the store upload and the
\* deletion have both succeeded; answered 400 (empty uid), or 500 because
\* authorize, getUploadUrl or uploadFile threw, the request leaves the temp
\* file on disk; and when the deletion throws after a successful store
\* upload, the answer is 500 although the object is in the store.
C20_TempFileLifecycle ==
  \A r \in Reqs :
    rq[r].op = "POST /upload" =>
      LET version == [fileId |-> rq[r].fileId, fileName |-> rq[r].refPath]
      IN  /\ rq[r].tmp = "deleted" =>
               /\ rq[r].hasFile
               /\ rq[r].fileId # 0
               /\ version \in store
               /\ rq[r].calls = <<"authorize", "getUploadUrl", "readFileSync",
                                  "uploadFile", "unlinkSync">>
          /\ rq[r].res.status = 200 =>
               /\ rq[r].tmp = "deleted"
               /\ rq[r].thrown = ""
               /\ version \in store
               /\ rq[r].res.data = version
          /\ rq[r].res.status = 400 =>
               /\ Trim(rq[r].uid) = Empty
               /\ rq[r].tmp = (IF rq[r].hasFile THEN "ondisk" ELSE "none")
          /\ (/\ rq[r].res.status = 500
              /\ rq[r].calls # <<>>
              /\ LastCall(r) \in {"authorize", "getUploadUrl", "uploadFile"}) =>
               /\ rq[r].tmp = (IF rq[r].hasFile THEN "ondisk" ELSE "none")
               /\ rq[r].fileId = 0
          /\ (/\ rq[r].res.status = 500
              /\ rq[r].calls # <<>>
              /\ LastCall(r) = "unlinkSync") =>
               /\ rq[r].fileId # 0
               /\ version \in store

\* C20 witness: the deletion of the temp file has thrown after the store
\* took the object, and the upload is answered 500
C20_Witness ==
  \E r \in Reqs :
    /\ rq[r].op = "POST /upload"
    /\ rq[r].res.status = 500
    /\ rq[r].calls = <<"authorize", "getUploadUrl", "readFileSync",
                       "uploadFile", "unlinkSync">>
    /\ [fileId |-> rq[r].fileId, fileName |-> rq[r].refPath] \in store

====
